---- MODULE Spec2Model ----
(***************************************************************************)
(* A model of spec_advance() of the 1-D particle-in-cell code               *)
(* (src/ANNOTATED_spec_advance.c).                                          *)
(*                                                                         *)
(* Real numbers are modelled in fixed point: an in-cell offset is an       *)
(* integer number of 1/Q cells (0 .. Q-1 stands for [0,1)), momenta, field  *)
(* samples and currents are integers, sqrtf is the integer square root and *)
(* "/" is integer division.  Every formula keeps the shape it has in the   *)
(* source.                                                                 *)
(***************************************************************************)
EXTENDS Integers, Sequences, FiniteSets, TLC

VARIABLES
    part,           \* spec->part[]: slot -> particle [ix, x, ux, uy, uz]
    np,             \* spec->np: number of live slots
    nx,             \* spec->nx (nx0 inside spec_advance)
    bc_type,        \* spec->bc_type: "periodic" or "open"
    moving_window,  \* spec->moving_window
    n_sort,         \* spec->n_sort
    dt_dx,          \* spec->dt / spec->dx, in 1/Q cells per unit velocity
    iter,           \* spec->iter
    n_move,         \* spec->n_move, the window-offset counter
    spec_energy,    \* spec->energy
    J,              \* current->J[]: cell -> <<jx, jy, jz>> (cells never written are 0)
    pc,             \* position of the thread that runs spec_advance
    i,              \* the loop index of the running loop
    energy,         \* local: double energy
    loc,            \* locals of one loop iteration: [di, dx, x1, qvy, qvz]
    entry,          \* the species as it was on entry of the current call
    scan0,          \* the particle array and count when the boundary pass began
    dep_call,       \* arguments of the latest dep_current_zamb call
    sort_calls,     \* number of spec_sort calls made by the current call
    todo,           \* parallel loop: iterations not yet started
    wst             \* parallel loop: worker -> [pc, i, loc, pend, reg]

vars == <<part, np, nx, bc_type, moving_window, n_sort, dt_dx, iter, n_move,
          spec_energy, J, pc, i, energy, loc, entry, scan0, dep_call,
          sort_calls, todo, wst>>

config == <<nx, bc_type, moving_window, n_sort, dt_dx>>

----------------------------------------------------------------------------
\* Bounds of the model

MaxNp == 3

MaxNx == 2

MaxIter == 2

NWorkers == 2

MaxOut == 1

\* fixed-point resolution of the in-cell offset part[i].x
Q == 2

----------------------------------------------------------------------------
\* Species parameters and field data (read-only during spec_advance)

\* const float tem = 0.5 * spec->dt / spec->m_q
tem == 1

\* spec->q
q == 1

\* spec->m_q
m_q == 1

\* const float qnx = spec->q * spec->dx / spec->dt
qnx == q * Q

\* a time step the stability condition allows, and one large enough to carry
\* a particle over more than a whole grid in one step
StableDtDx == Q - 1

UnstableDtDx == Q * (MaxNx + 1)

\* emf->E_part[], emf->B_part[]
E_part(c) == IF c % 2 = 0 THEN <<0, 0, 0>> ELSE <<-1, 0, 0>>

B_part(c) == IF c % 2 = 0 THEN <<0, 0, 1>> ELSE <<0, 0, 0>>

\* the storage of the species holds MaxNp particles; a loaded species leaves
\* one slot free
Slots == 0 .. (MaxNp - 1)

LoadNp == MaxNp - 1

Filler == [ix |-> 0, x |-> 0, ux |-> 0, uy |-> 0, uz |-> 0]

NoLoc == [di |-> 0, dx |-> 0, x1 |-> 0, qvy |-> 0, qvz |-> 0]

NoCall == [ix |-> 0, di |-> 0, x |-> 0, dx |-> 0, qnx |-> 0, qvy |-> 0, qvz |-> 0]

----------------------------------------------------------------------------
\* Arithmetic of the particle loop

\* sqrtf
ISqrt(n) == CHOOSE r \in 0 .. n : r * r <= n /\ (r + 1) * (r + 1) > n

\* interpolate_fld: the field sample at the particle's position
interpolate_fld(p) ==
    LET c == p.ix + (IF 2 * p.x >= Q THEN 1 ELSE 0)
    IN  [E |-> E_part(c), B |-> B_part(c)]

\* the half-accelerated momentum ut and u2 = |ut|^2
HalfPush(p) ==
    LET f == interpolate_fld(p)
        utx == p.ux + f.E[1] * tem
        uty == p.uy + f.E[2] * tem
        utz == p.uz + f.E[3] * tem
    IN  [utx |-> utx, uty |-> uty, utz |-> utz,
         u2 |-> utx * utx + uty * uty + utz * utz]

\* energy += u2 / ( 1 + gamma )
EnergyTerm(p) ==
    LET h == HalfPush(p)
    IN  h.u2 \div (1 + ISqrt(1 + h.u2))

\* the Boris pusher: the new momentum <<ux, uy, uz>> of particle p
Boris(p) ==
    LET f == interpolate_fld(p)
        Epx == f.E[1] * tem
        Epy == f.E[2] * tem
        Epz == f.E[3] * tem
        h == HalfPush(p)
        gamma == ISqrt(1 + h.u2)
        Bx == (f.B[1] * tem) \div gamma
        By == (f.B[2] * tem) \div gamma
        Bz == (f.B[3] * tem) \div gamma
        otsq == 2 \div (1 + Bx * Bx + By * By + Bz * Bz)
        ux1 == h.utx + h.uty * Bz - h.utz * By
        uy1 == h.uty + h.utz * Bx - h.utx * Bz
        uz1 == h.utz + h.utx * By - h.uty * Bx
        utx2 == h.utx + uy1 * (Bz * otsq) - uz1 * (By * otsq)
        uty2 == h.uty + uz1 * (Bx * otsq) - ux1 * (Bz * otsq)
        utz2 == h.utz + ux1 * (By * otsq) - uy1 * (Bx * otsq)
    IN  <<utx2 + Epx, uty2 + Epy, utz2 + Epz>>

\* spec->part[i].ux = ux; .uy = uy; .uz = uz
StoreMomentum(p, u) == [p EXCEPT !.ux = u[1], !.uy = u[2], !.uz = u[3]]

\* ltrim: the signed number of whole cells in x1
ltrim(x1) == x1 \div Q

\* displacement, cell delta, new offset and charge-weighted velocities of a
\* particle p whose momentum is already the new one
Displace(p, dtdx) ==
    LET g == ISqrt(1 + p.ux * p.ux + p.uy * p.uy + p.uz * p.uz)
        dx == (dtdx * p.ux) \div g
        x1 == p.x + dx
        di == ltrim(x1)
    IN  [di |-> di, dx |-> dx, x1 |-> x1 - di * Q,
         qvy |-> (q * p.uy) \div g, qvz |-> (q * p.uz) \div g]

----------------------------------------------------------------------------
\* The current grid and dep_current_zamb

ZeroJ(n) == [c \in 0 .. n |-> <<0, 0, 0>>]

\* current->J[c]
JGet(Jg, c) == IF c \in DOMAIN Jg THEN Jg[c] ELSE <<0, 0, 0>>

\* current->J[c].k = v   (k = 1, 2, 3 for x, y, z)
JPut(Jg, c, k, v) == (c :> [JGet(Jg, c) EXCEPT ![k] = v]) @@ Jg

Div(a, b) == IF b > 0 THEN a \div b ELSE (-a) \div (-b)

\* DepArgs, were the position stored before the deposition
DepArgs_AfterStore(p, l) ==
    [ix |-> p.ix + l.di, di |-> l.di, x |-> l.x1, dx |-> l.dx,
     qnx |-> qnx, qvy |-> l.qvy, qvz |-> l.qvz]

\* the arguments of the dep_current_zamb call for particle p with locals l
DepArgs(p, l) ==
    [ix |-> p.ix, di |-> l.di, x |-> p.x, dx |-> l.dx,
     qnx |-> qnx, qvy |-> l.qvy, qvz |-> l.qvz]

\* the virtual particles vp[] of dep_current_zamb: the whole trajectory when
\* no cell boundary is crossed, else the part up to the boundary of the home
\* cell and the rest, placed in cell ix + di
DepSegments(a) ==
    IF a.di = 0
    THEN << [ix |-> a.ix, x0 |-> a.x, x1 |-> a.x + a.dx, dx |-> a.dx,
             qvy |-> a.qvy, qvz |-> a.qvz] >>
    ELSE LET xb == IF a.di > 0 THEN Q ELSE 0
             dx0 == xb - a.x
             qvy0 == Div(a.qvy * dx0, a.dx)
             qvz0 == Div(a.qvz * dx0, a.dx)
         IN  << [ix |-> a.ix, x0 |-> a.x, x1 |-> xb, dx |-> dx0,
                 qvy |-> qvy0, qvz |-> qvz0],
                [ix |-> a.ix + a.di, x0 |-> Q - xb,
                 x1 |-> a.x + a.dx - a.di * Q, dx |-> a.dx - dx0,
                 qvy |-> a.qvy - qvy0, qvz |-> a.qvz - qvz0] >>

\* the five "+=" of one virtual particle, in the order they are made
SegWrites(a, s) ==
    LET hi == s.x0 + s.x1
        lo == 2 * Q - hi
    IN  << [c |-> s.ix,     k |-> 1, v |-> a.qnx * s.dx],
           [c |-> s.ix,     k |-> 2, v |-> s.qvy * lo],
           [c |-> s.ix + 1, k |-> 2, v |-> s.qvy * hi],
           [c |-> s.ix,     k |-> 3, v |-> s.qvz * lo],
           [c |-> s.ix + 1, k |-> 3, v |-> s.qvz * hi] >>

RECURSIVE AllWrites(_, _)
AllWrites(a, segs) ==
    IF segs = << >> THEN << >>
    ELSE SegWrites(a, Head(segs)) \o AllWrites(a, Tail(segs))

\* every "+=" that dep_current_zamb makes for the call with arguments a
DepWrites(a) == AllWrites(a, DepSegments(a))

RECURSIVE ApplyWrites(_, _)
ApplyWrites(Jg, ws) ==
    IF ws = << >> THEN Jg
    ELSE LET w == Head(ws)
         IN  ApplyWrites(JPut(Jg, w.c, w.k, JGet(Jg, w.c)[w.k] + w.v), Tail(ws))

\* dep_current_zamb run by one thread
dep_current_zamb(Jg, a) == ApplyWrites(Jg, DepWrites(a))

----------------------------------------------------------------------------
\* Boundary handling, sort

\* StorePos, were the slot index shared by the iterations
StorePos_SharedIndex(parts, k, l) ==
    [parts EXCEPT ![0] = [parts[k] EXCEPT !.x = l.x1, !.ix = @ + l.di]]

\* spec->part[i].x = x1; spec->part[i].ix += di
StorePos(parts, k, l) ==
    [parts EXCEPT ![k] = [@ EXCEPT !.x = l.x1, !.ix = @ + l.di]]

\* AbsorbingPass, were the pass chosen by the boundary kind alone
AbsorbingPass_KindOnly(mw, bc) == bc = "open"

\* spec->moving_window || spec->bc_type == PART_BC_OPEN
AbsorbingPass(mw, bc) == mw \/ bc = "open"

\* OutOfBox with the upper test off by one
OutOfBox_OffByOne(p, n) == p.ix < 0 \/ p.ix > n

\* ( part[i].ix < 0 ) || ( part[i].ix >= nx0 )
OutOfBox(p, n) == p.ix < 0 \/ p.ix >= n

\* the slot read by part[ -- np ]
AbsorbSrc(n) == n - 1

\* AbsorbNextI, were the scan to advance after a removal too
AbsorbNextI_Always(k, out) == k + 1

\* the scan index after one iteration of the absorbing scan
AbsorbNextI(k, out) == IF out THEN k ELSE k + 1

\* PeriodicWrap with the upper test off by one
PeriodicWrap_OffByOne(ix, n) ==
    ix + (IF ix < 0 THEN n ELSE 0) - (IF ix > n THEN n ELSE 0)

\* ix += ((ix < 0) ? nx0 : 0) - ((ix >= nx0) ? nx0 : 0)
PeriodicWrap(ix, n) ==
    ix + (IF ix < 0 THEN n ELSE 0) - (IF ix >= n THEN n ELSE 0)

\* SortDue, were the test made on the iteration number before its increment
SortDue_BeforeIncrement(ns, it) == ns > 0 /\ (it - 1) % ns = 0

\* spec->n_sort > 0 and ! (spec->iter % spec->n_sort)
SortDue(ns, it) == ns > 0 /\ it % ns = 0

\* spec_move_window when the window moves: every particle goes one cell down
\* and the window-offset counter advances
ShiftWindow(parts, n) ==
    [k \in Slots |-> IF k < n THEN [parts[k] EXCEPT !.ix = @ - 1] ELSE parts[k]]

\* spec_sort: the live slots reordered by cell
spec_sort(parts, n) ==
    LET rank(k) == Cardinality({j \in 0 .. (n - 1) :
                        parts[j].ix < parts[k].ix
                        \/ (parts[j].ix = parts[k].ix /\ j < k)})
    IN  [r \in Slots |->
            IF r < n THEN parts[CHOOSE k \in 0 .. (n - 1) : rank(k) = r]
            ELSE parts[r]]

----------------------------------------------------------------------------
\* Initial states

NSortSet == {-1, 0, 2}

USet == {<<1, 0, 0>>, <<-1, 1, 0>>}

\* a particle inside the box of n cells
PSet(n) ==
    {[ix |-> c, x |-> o, ux |-> u[1], uy |-> u[2], uz |-> u[3]] :
        c \in 0 .. (n - 1), o \in {0, Q - 1}, u \in USet}

\* the particle arrays with n live slots taken from P
Arrays(P, n) ==
    {a \in [Slots -> P \cup {Filler}] :
        \A k \in Slots : IF k < n THEN a[k] \in P ELSE a[k] = Filler}

\* the arrays of n particles inside the box, with the two momenta of USet in
\* turn
Loaded(cells, n) ==
    {a \in Arrays(PSet(cells), n) :
        \A k \in 0 .. (n - 1) :
            <<a[k].ux, a[k].uy, a[k].uz>> =
                IF k % 2 = 0 THEN <<1, 0, 0>> ELSE <<-1, 1, 0>>}

Workers == 1 .. NWorkers

IdleWorker == [pc |-> "idle", i |-> 0, loc |-> NoLoc, pend |-> << >>, reg |-> 0]

InitCommon ==
    /\ n_move = 0
    /\ spec_energy = 0
    /\ J = ZeroJ(nx)
    /\ i = 0
    /\ energy = 0
    /\ loc = NoLoc
    /\ dep_call = NoCall
    /\ sort_calls = 0
    /\ todo = {}
    /\ wst = [w \in Workers |-> IdleWorker]

\* a species loaded inside the box, before the first call of spec_advance
Init ==
    /\ nx = MaxNx
    /\ n_sort \in NSortSet
    /\ bc_type \in {"periodic", "open"}
    /\ moving_window \in BOOLEAN
    /\ dt_dx \in {StableDtDx, UnstableDtDx}
    /\ np \in 1 .. LoadNp
    /\ part \in Loaded(nx, np)
    /\ iter = 0
    /\ pc = "ready"
    /\ entry = [part |-> part, np |-> np, iter |-> iter]
    /\ scan0 = [part |-> part, np |-> np]
    /\ InitCommon

----------------------------------------------------------------------------
\* spec_advance, run by one thread

\* entry of spec_advance: constants, energy = 0, the loop starts at i = 0
Enter ==
    /\ pc = "ready"
    /\ iter < MaxIter
    /\ pc' = "loop"
    /\ i' = 0
    /\ energy' = 0
    /\ entry' = [part |-> part, np |-> np, iter |-> iter]
    /\ sort_calls' = 0
    /\ UNCHANGED <<part, np, config, iter, n_move, spec_energy, J, loc, scan0,
                   dep_call, todo, wst>>

\* one loop iteration up to the call of dep_current_zamb: the Boris push, the
\* new momentum stored, the displacement and the charge-weighted velocities
PushMomentum ==
    /\ pc = "loop"
    /\ i < np
    /\ energy' = energy + EnergyTerm(part[i])
    /\ part' = [part EXCEPT ![i] = StoreMomentum(@, Boris(@))]
    /\ loc' = Displace(part'[i], dt_dx)
    /\ pc' = "dep"
    /\ UNCHANGED <<np, config, iter, n_move, spec_energy, J, i, entry, scan0,
                   dep_call, sort_calls, todo, wst>>

\* the call of dep_current_zamb
DepCurrent ==
    /\ pc = "dep"
    /\ dep_call' = DepArgs(part[i], loc)
    /\ J' = dep_current_zamb(J, dep_call')
    /\ pc' = "store"
    /\ UNCHANGED <<part, np, config, iter, n_move, spec_energy, i, energy, loc,
                   entry, scan0, sort_calls, todo, wst>>

\* the end of one loop iteration: the new position stored
StorePosition ==
    /\ pc = "store"
    /\ part' = StorePos(part, i, loc)
    /\ i' = i + 1
    /\ pc' = "loop"
    /\ UNCHANGED <<np, config, iter, n_move, spec_energy, J, energy, loc, entry,
                   scan0, dep_call, sort_calls, todo, wst>>

\* after the loop: the energy stored, the iteration number advanced
LoopExit ==
    /\ pc = "loop"
    /\ i >= np
    /\ spec_energy' = q * m_q * energy
    /\ iter' = iter + 1
    /\ pc' = "bc"
    /\ UNCHANGED <<part, np, config, n_move, J, i, energy, loc, entry, scan0,
                   dep_call, sort_calls, todo, wst>>

\* the choice of the boundary pass; the window moves first when it is due
BoundarySelect ==
    /\ pc = "bc"
    /\ IF AbsorbingPass(moving_window, bc_type)
       THEN /\ \E shift \in BOOLEAN :
                IF moving_window /\ shift
                THEN part' = ShiftWindow(part, np) /\ n_move' = n_move + 1
                ELSE UNCHANGED <<part, n_move>>
            /\ pc' = "absorb"
       ELSE /\ UNCHANGED <<part, n_move>>
            /\ pc' = "periodic"
    /\ i' = 0
    /\ scan0' = [part |-> part', np |-> np]
    /\ UNCHANGED <<np, config, iter, spec_energy, J, energy, loc, entry,
                   dep_call, sort_calls, todo, wst>>

\* one iteration of the absorbing scan
AbsorbStep ==
    /\ pc = "absorb"
    /\ i < np
    /\ LET out == OutOfBox(part[i], nx)
       IN  /\ IF out
              THEN /\ np' = np - 1
                   /\ part' = [part EXCEPT ![i] = part[AbsorbSrc(np)]]
              ELSE UNCHANGED <<part, np>>
           /\ i' = AbsorbNextI(i, out)
    /\ UNCHANGED <<config, iter, n_move, spec_energy, J, pc, energy, loc, entry,
                   scan0, dep_call, sort_calls, todo, wst>>

AbsorbExit ==
    /\ pc = "absorb"
    /\ i >= np
    /\ pc' = "sort"
    /\ UNCHANGED <<part, np, config, iter, n_move, spec_energy, J, i, energy,
                   loc, entry, scan0, dep_call, sort_calls, todo, wst>>

\* one iteration of the periodic loop
PeriodicStep ==
    /\ pc = "periodic"
    /\ i < np
    /\ part' = [part EXCEPT ![i].ix = PeriodicWrap(@, nx)]
    /\ i' = i + 1
    /\ UNCHANGED <<np, config, iter, n_move, spec_energy, J, pc, energy, loc,
                   entry, scan0, dep_call, sort_calls, todo, wst>>

PeriodicExit ==
    /\ pc = "periodic"
    /\ i >= np
    /\ pc' = "sort"
    /\ UNCHANGED <<part, np, config, iter, n_move, spec_energy, J, i, energy,
                   loc, entry, scan0, dep_call, sort_calls, todo, wst>>

\* the sort at every n_sort time steps
SortStep ==
    /\ pc = "sort"
    /\ IF SortDue(n_sort, iter)
       THEN part' = spec_sort(part, np) /\ sort_calls' = sort_calls + 1
       ELSE UNCHANGED <<part, sort_calls>>
    /\ pc' = "timing"
    /\ UNCHANGED <<np, config, iter, n_move, spec_energy, J, i, energy, loc,
                   entry, scan0, dep_call, todo, wst>>

\* the timing statistics, and the return
Return ==
    /\ pc = "timing"
    /\ pc' = "done"
    /\ UNCHANGED <<part, np, config, iter, n_move, spec_energy, J, i, energy,
                   loc, entry, scan0, dep_call, sort_calls, todo, wst>>

\* between two calls the field solver consumes the current and zeroes the grid
CurrentZero ==
    /\ pc = "done"
    /\ J' = ZeroJ(nx)
    /\ pc' = "ready"
    /\ UNCHANGED <<part, np, config, iter, n_move, spec_energy, i, energy, loc,
                   entry, scan0, dep_call, sort_calls, todo, wst>>

Next ==
    \/ Enter
    \/ PushMomentum
    \/ DepCurrent
    \/ StorePosition
    \/ LoopExit
    \/ BoundarySelect
    \/ AbsorbStep
    \/ AbsorbExit
    \/ PeriodicStep
    \/ PeriodicExit
    \/ SortStep
    \/ Return
    \/ CurrentZero

Spec == Init /\ [][Next]_vars

----------------------------------------------------------------------------
\* The boundary pass on its own, from every particle array the loop can leave

\* particle k of an array whose cells are given by cells; particles k and
\* k + 2 differ in nothing but their cell
Tagged(cells) ==
    [k \in Slots |->
        IF k < Len(cells)
        THEN [ix |-> cells[k + 1], x |-> 0, ux |-> k % 2, uy |-> 0, uz |-> 0]
        ELSE Filler]

CellSeqs(n, len) == [1 .. len -> (0 - MaxOut) .. (n - 1 + MaxOut)]

InitBC ==
    /\ nx \in 1 .. MaxNx
    /\ n_sort = 0
    /\ bc_type \in {"periodic", "open"}
    /\ moving_window \in BOOLEAN
    /\ dt_dx = UnstableDtDx
    /\ np \in 0 .. MaxNp
    /\ \E cells \in CellSeqs(nx, np) : part = Tagged(cells)
    /\ iter = 1
    /\ pc = "bc"
    /\ entry = [part |-> part, np |-> np, iter |-> 0]
    /\ scan0 = [part |-> part, np |-> np]
    /\ InitCommon

NextBC ==
    \/ BoundarySelect
    \/ AbsorbStep
    \/ AbsorbExit
    \/ PeriodicStep
    \/ PeriodicExit

SpecBC == InitBC /\ [][NextBC]_vars

----------------------------------------------------------------------------
\* The particle loop run by several workers at once
\* (#pragma omp for over the loop of spec_advance)

InitPar ==
    /\ nx = MaxNx
    /\ n_sort = 0
    /\ bc_type = "periodic"
    /\ moving_window = FALSE
    /\ dt_dx = StableDtDx
    /\ np \in 1 .. LoadNp
    /\ part \in Loaded(nx, np)
    /\ iter = 0
    /\ pc = "par"
    /\ entry = [part |-> part, np |-> np, iter |-> iter]
    /\ scan0 = [part |-> part, np |-> np]
    /\ n_move = 0
    /\ spec_energy = 0
    /\ J = ZeroJ(nx)
    /\ i = 0
    /\ energy = 0
    /\ loc = NoLoc
    /\ dep_call = NoCall
    /\ sort_calls = 0
    /\ todo = 0 .. (np - 1)
    /\ wst = [w \in Workers |-> IdleWorker]

seq_vars == <<np, config, iter, n_move, spec_energy, pc, i, energy, loc, entry,
              scan0, dep_call, sort_calls>>

\* a worker takes an iteration and runs it up to the call of dep_current_zamb
WPush(w) ==
    /\ pc = "par"
    /\ wst[w].pc = "idle"
    /\ \E k \in todo :
        /\ todo' = todo \ {k}
        /\ part' = [part EXCEPT ![k] = StoreMomentum(@, Boris(@))]
        /\ LET l == Displace(part'[k], dt_dx)
           IN  wst' = [wst EXCEPT ![w] =
                        [pc |-> "dep", i |-> k, loc |-> l,
                         pend |-> DepWrites(DepArgs(part'[k], l)), reg |-> 0]]
    /\ UNCHANGED <<J, seq_vars>>

\* the read of one "+=" of dep_current_zamb
WRead(w) ==
    /\ wst[w].pc = "dep"
    /\ LET t == Head(wst[w].pend)
       IN  wst' = [wst EXCEPT ![w].pc = "add", ![w].reg = JGet(J, t.c)[t.k]]
    /\ UNCHANGED <<part, J, todo, seq_vars>>

\* the add and write-back of one "+=" of dep_current_zamb
WWrite(w) ==
    /\ wst[w].pc = "add"
    /\ LET t == Head(wst[w].pend)
           rest == Tail(wst[w].pend)
       IN  /\ J' = JPut(J, t.c, t.k, wst[w].reg + t.v)
           /\ wst' = [wst EXCEPT ![w].pend = rest, ![w].reg = 0,
                        ![w].pc = IF rest = << >> THEN "store" ELSE "dep"]
    /\ UNCHANGED <<part, todo, seq_vars>>

\* dep_current_zamb with the grid to itself (inside a critical section)
WDep(w) ==
    /\ wst[w].pc = "dep"
    /\ J' = ApplyWrites(J, wst[w].pend)
    /\ wst' = [wst EXCEPT ![w].pend = << >>, ![w].pc = "store"]
    /\ UNCHANGED <<part, todo, seq_vars>>

\* the worker stores the new position and is free for another iteration
WStore(w) ==
    /\ wst[w].pc = "store"
    /\ part' = StorePos(part, wst[w].i, wst[w].loc)
    /\ wst' = [wst EXCEPT ![w] = IdleWorker]
    /\ UNCHANGED <<J, todo, seq_vars>>

\* the barrier at the end of the loop
ParJoin ==
    /\ pc = "par"
    /\ todo = {}
    /\ \A w \in Workers : wst[w].pc = "idle"
    /\ pc' = "joined"
    /\ UNCHANGED <<part, np, config, iter, n_move, spec_energy, J, i, energy,
                   loc, entry, scan0, dep_call, sort_calls, todo, wst>>

\* the loop as written: no synchronisation of the writes to current->J[]
NextRace ==
    \/ \E w \in Workers : WPush(w)
    \/ \E w \in Workers : WRead(w)
    \/ \E w \in Workers : WWrite(w)
    \/ \E w \in Workers : WStore(w)
    \/ ParJoin

SpecRace == InitPar /\ [][NextRace]_vars

\* the loop with each deposition made alone
NextPar ==
    \/ \E w \in Workers : WPush(w)
    \/ \E w \in Workers : WDep(w)
    \/ \E w \in Workers : WStore(w)
    \/ ParJoin

SpecPar == InitPar /\ [][NextPar]_vars

----------------------------------------------------------------------------
\* Properties

InBox(p) == p.ix \in 0 .. (nx - 1)

Count(parts, n, p) == Cardinality({k \in 0 .. (n - 1) : parts[k] = p})

Wrapped(p) ==
    [p EXCEPT !.ix = IF @ < 0 THEN @ + nx ELSE IF @ >= nx THEN @ - nx ELSE @]

ScanEnd == pc = "absorb" /\ i >= np

\* C1: when the absorbing scan ends, the live slots hold exactly the multiset
\* of the particles that were inside [0, nx) when it began, and np has gone
\* down by the number of particles that were outside
C1_AbsorbKeepsInside ==
    ScanEnd =>
        /\ \A p \in {scan0.part[k] : k \in 0 .. (scan0.np - 1)}
                    \cup {part[k] : k \in 0 .. (np - 1)} :
              Count(part, np, p) =
                  IF InBox(p) THEN Count(scan0.part, scan0.np, p) ELSE 0
        /\ np = scan0.np
                - Cardinality({k \in 0 .. (scan0.np - 1) : ~InBox(scan0.part[k])})

\* the scan ended after removing the first particle (cell -1) and the last
\* one (cell nx), which had first replaced it
C1_Witness ==
    /\ ScanEnd
    /\ scan0.np >= 3
    /\ np = scan0.np - 2
    /\ scan0.part[0].ix = -1
    /\ scan0.part[scan0.np - 1].ix = nx

\* C2: the periodic pass adds nx to a negative cell index, subtracts nx from
\* one at or above nx, leaves the others, changes no other field of a
\* particle and leaves np as it was
C2_PeriodicWrap ==
    pc = "periodic" =>
        /\ np = scan0.np
        /\ \A k \in Slots :
              part[k] = IF k < i THEN Wrapped(scan0.part[k]) ELSE scan0.part[k]

\* the pass is over, and it took one particle from cell -1 to nx - 1 and
\* another from cell nx to 0
C2_Witness ==
    /\ pc = "periodic"
    /\ i >= np
    /\ \E k \in 0 .. (np - 1) : scan0.part[k].ix = -1 /\ part[k].ix = nx - 1
    /\ \E k \in 0 .. (np - 1) : scan0.part[k].ix = nx /\ part[k].ix = 0

\* the particle as dep_current_zamb is called for it, and as the iteration
\* leaves it
Pushed(p) == StoreMomentum(p, Boris(p))

Advanced(p) ==
    LET l == Displace(Pushed(p), dt_dx)
    IN  [Pushed(p) EXCEPT !.x = l.x1, !.ix = @ + l.di]

RECURSIVE SumDeposits(_, _)
SumDeposits(Jg, k) ==
    IF k >= np THEN Jg
    ELSE LET p == Pushed(entry.part[k])
         IN  SumDeposits(dep_current_zamb(Jg, DepArgs(p, Displace(p, dt_dx))),
                         k + 1)

\* C3: with the loop run by several workers, every cell of the current grid
\* ends at its initial value plus the contributions of all the particles
C3_NoLostUpdate == pc = "joined" => J = SumDeposits(ZeroJ(nx), 0)

\* C4: after spec_advance has returned every live particle is in [0, nx)
C4_InBoxAfterReturn ==
    pc = "done" => \A k \in 0 .. (np - 1) : InBox(part[k])

InCall == {"loop", "dep", "store", "bc", "absorb", "periodic", "sort", "timing"}

\* C5 as it was stated: a step of a species of periodic kind never changes np,
\* whatever the moving-window flag
C5_PeriodicKindKeepsNp ==
    (pc \in InCall /\ bc_type = "periodic") => np = entry.np

\* C5: the absorbing pass runs when the species has a moving window or is of
\* open kind, the periodic pass otherwise; a step of a species of periodic
\* kind without a moving window does not change np
C5_PassSelection ==
    /\ pc = "absorb" => (moving_window \/ bc_type = "open")
    /\ pc = "periodic" => (~moving_window /\ bc_type = "periodic")
    /\ (pc \in InCall /\ ~moving_window /\ bc_type = "periodic") => np = entry.np

\* a species of periodic kind without a moving window has had a particle
\* wrapped, and the call is about to return
C5_Witness ==
    /\ pc = "timing"
    /\ bc_type = "periodic"
    /\ ~moving_window
    /\ \E k \in 0 .. (np - 1) : ~InBox(scan0.part[k]) /\ InBox(part[k])

\* C6: dep_current_zamb is never called with a cell delta beyond one cell
C6_FailFast == dep_call.di \in -1 .. 1

\* C7: the new momentum is stored before dep_current_zamb is called;
\* dep_current_zamb is called with the cell index and offset the particle had
\* before the step, and only then are the new offset and cell index stored
C7_DepositBeforeMove ==
    /\ pc \in {"dep", "store"} =>
          /\ part[i].ix = entry.part[i].ix
          /\ part[i].x = entry.part[i].x
          /\ <<part[i].ux, part[i].uy, part[i].uz>> = Boris(entry.part[i])
    /\ pc = "store" =>
          /\ dep_call.ix = entry.part[i].ix
          /\ dep_call.x = entry.part[i].x
          /\ dep_call.di = loc.di
          /\ dep_call.dx = loc.dx
    /\ (pc = "loop" /\ i > 0) =>
          /\ dep_call.ix = entry.part[i - 1].ix
          /\ part[i - 1].x = loc.x1
          /\ part[i - 1].ix = entry.part[i - 1].ix + loc.di

\* dep_current_zamb has returned for a particle that changes cell and whose
\* momentum the push has changed
C7_Witness ==
    /\ pc = "store"
    /\ loc.di # 0
    /\ <<part[i].ux, part[i].uy, part[i].uz>>
          # <<entry.part[i].ux, entry.part[i].uy, entry.part[i].uz>>

\* C8: a call adds one to iter; it calls spec_sort once, after the boundary
\* pass, when n_sort > 0 and the new iter is a multiple of n_sort, and not at
\* all otherwise
C8_SortSchedule ==
    /\ sort_calls \in {0, 1}
    /\ pc \in {"loop", "dep", "store"} => iter = entry.iter
    /\ pc \in {"bc", "absorb", "periodic", "sort", "timing", "done"} =>
          iter = entry.iter + 1
    /\ pc \in {"loop", "dep", "store", "bc", "absorb", "periodic", "sort"} =>
          sort_calls = 0
    /\ pc \in {"timing", "done"} =>
          sort_calls = IF n_sort > 0 /\ iter % n_sort = 0 THEN 1 ELSE 0

\* the second call of a species with n_sort = 2 has sorted
C8_Witness == pc = "timing" /\ sort_calls = 1 /\ iter = 2 /\ n_sort = 2

InHand(k) == \E w \in Workers : wst[w].pc # "idle" /\ wst[w].i = k

\* C9: whatever the order and interleaving of the iterations, slot k holds
\* the particle it held on entry until iteration k starts, that particle
\* with its new momentum while iteration k runs, and that particle advanced
\* once iteration k is over
C9_IterationsIndependent ==
    \A k \in Slots :
        part[k] = IF k \in todo \/ k >= np THEN entry.part[k]
                  ELSE IF InHand(k) THEN Pushed(entry.part[k])
                  ELSE Advanced(entry.part[k])

\* every worker is inside an iteration, each of another particle, and the
\* particles on entry differed
C9_Witness ==
    /\ \A w \in Workers : wst[w].pc = "store"
    /\ \A v, w \in Workers : v # w => entry.part[wst[v].i] # entry.part[wst[w].i]

\* C10: in the absorbing scan 0 <= i <= np <= the count at its start, the
\* slot read on a removal is inside the slots live at its start, and every
\* iteration either takes one from np or adds one to i, so that np - i goes
\* down by one in each
C10_ScanTerminates ==
    /\ [](pc = "absorb" =>
            /\ 0 <= i /\ i <= np /\ np <= scan0.np
            /\ i < np => (np - 1) \in 0 .. (scan0.np - 1))
    /\ [][(pc = "absorb" /\ pc' = "absorb") =>
            /\ (np' = np - 1 /\ i' = i) \/ (np' = np /\ i' = i + 1)
            /\ np' - i' = np - i - 1]_vars

\* the scan has ended with every particle removed, the last of them by an
\* assignment of the slot to itself
C10_Witness == ScanEnd /\ np = 0 /\ scan0.np >= 2

====
